---- MODULE Spec2Model ----
(***************************************************************************)
(* warp_form_method: the filter form_method(method) and the first-field    *)
(* inspector parse_method_in_first_field (src/src/lib.rs).                  *)
(*                                                                         *)
(* Bytes are integers 0..255; strings, header values, bodies and method    *)
(* tokens are sequences of bytes.  An Option<Method> is a record           *)
(* [some, method]; a Method is identified by its token.                    *)
(***************************************************************************)
EXTENDS Integers, Sequences, FiniteSets, TLC

VARIABLES
    target,       \* the `method` argument of form_method
    reqMethod,    \* the request's method token
    contentType,  \* the request's Content-Type header: [present, value]
    body,         \* the aggregated body buffer handed to the inspector
    pos,          \* read cursor of the body buffer (bytes consumed)
    form_method_result, \* the Option<Method> the inspector returned
    panicked,     \* a slice-length panic was raised by copy_to_slice
    trace,        \* the filter stages evaluated so far, in order
    pc,           \* the stage to evaluate next
    outcome       \* "pending", "matched" or "rejected"

vars == <<target, reqMethod, contentType, body, pos, form_method_result,
          panicked, trace, pc, outcome>>

----------------------------------------------------------------------------
(* Bounds of the model *)

\* longest run of bytes that follows the first name/value pair of a body
MaxTailLen == 2

----------------------------------------------------------------------------
(* Byte strings *)

EQ == <<61>>     \* "="
AMP == <<38>>    \* "&"

S_method == <<95, 109, 101, 116, 104, 111, 100>>                \* "_method"
S_metho == <<95, 109, 101, 116, 104, 111>>                      \* "_metho"
S_methodx == <<95, 109, 101, 116, 104, 111, 100, 120>>          \* "_methodx"
S_first_name == <<102, 105, 114, 115, 116, 95, 110, 97, 109, 101>> \* "first_name"

GET == <<71, 69, 84>>
POST == <<80, 79, 83, 84>>
PUT == <<80, 85, 84>>
PATCH == <<80, 65, 84, 67, 72>>
DELETE == <<68, 69, 76, 69, 84, 69>>
HEAD == <<72, 69, 65, 68>>
OPTIONS == <<79, 80, 84, 73, 79, 78, 83>>
CONNECT == <<67, 79, 78, 78, 69, 67, 84>>
TRACE == <<84, 82, 65, 67, 69>>

StandardMethods == {GET, POST, PUT, PATCH, DELETE, HEAD, OPTIONS, CONNECT, TRACE}

\* "application/x-www-form-urlencoded"
FORM_CONTENT_TYPE ==
    <<97, 112, 112, 108, 105, 99, 97, 116, 105, 111, 110, 47, 120, 45, 119,
      119, 119, 45, 102, 111, 114, 109, 45, 117, 114, 108, 101, 110, 99, 111,
      100, 101, 100>>

\* mutation: the minimum counts the name and '=' only
MIN_LEN_NameOnly == Len(S_method \o EQ)

\* The minimum length of the `_method` field: "_method=GET".len()
MIN_LEN == Len(S_method \o EQ \o GET)

\* mutation: the maximum is sized for the longest standard method
MAX_LEN_Options == Len(S_method \o EQ \o OPTIONS)

\* The maximum length of the `_method` field: "_method=DELETE".len()
MAX_LEN == Len(S_method \o EQ \o DELETE)

None == [some |-> FALSE, method |-> <<>>]
Some(m) == [some |-> TRUE, method |-> m]

Min(a, b) == IF a < b THEN a ELSE b

----------------------------------------------------------------------------
(* std::str::from_utf8: TRUE iff the bytes are well-formed UTF-8 *)

IsCont(b) == b >= 128 /\ b <= 191

RECURSIVE FromUtf8Ok(_)
FromUtf8Ok(s) ==
    IF s = <<>> THEN TRUE
    ELSE LET b == Head(s)
             n == Len(s)
             Rest(k) == SubSeq(s, k + 1, n)
         IN  IF b < 128 THEN FromUtf8Ok(Tail(s))
             ELSE IF b >= 194 /\ b <= 223
                  THEN n >= 2 /\ IsCont(s[2]) /\ FromUtf8Ok(Rest(2))
             ELSE IF b = 224
                  THEN n >= 3 /\ s[2] >= 160 /\ s[2] <= 191 /\ IsCont(s[3])
                       /\ FromUtf8Ok(Rest(3))
             ELSE IF (b >= 225 /\ b <= 236) \/ b = 238 \/ b = 239
                  THEN n >= 3 /\ IsCont(s[2]) /\ IsCont(s[3]) /\ FromUtf8Ok(Rest(3))
             ELSE IF b = 237
                  THEN n >= 3 /\ s[2] >= 128 /\ s[2] <= 159 /\ IsCont(s[3])
                       /\ FromUtf8Ok(Rest(3))
             ELSE IF b = 240
                  THEN n >= 4 /\ s[2] >= 144 /\ s[2] <= 191 /\ IsCont(s[3])
                       /\ IsCont(s[4]) /\ FromUtf8Ok(Rest(4))
             ELSE IF b >= 241 /\ b <= 243
                  THEN n >= 4 /\ IsCont(s[2]) /\ IsCont(s[3]) /\ IsCont(s[4])
                       /\ FromUtf8Ok(Rest(4))
             ELSE IF b = 244
                  THEN n >= 4 /\ s[2] >= 128 /\ s[2] <= 143 /\ IsCont(s[3])
                       /\ IsCont(s[4]) /\ FromUtf8Ok(Rest(4))
             ELSE FALSE

(* str::split(|c| c == '=' || c == '&'): the delimiters are ASCII, so in    *)
(* well-formed UTF-8 a char is a delimiter exactly when its byte is one.    *)
IsDelimiter(c) == c = 61 \/ c = 38

\* index of the first delimiter of s, or 0 when s holds none
RECURSIVE FirstDelimiter(_, _)
FirstDelimiter(s, i) ==
    IF i > Len(s) THEN 0
    ELSE IF IsDelimiter(s[i]) THEN i
    ELSE FirstDelimiter(s, i + 1)

\* the segments of s between delimiters; a string without one is one segment
RECURSIVE Split(_)
Split(s) ==
    LET d == FirstDelimiter(s, 1)
    IN  IF d = 0 THEN <<s>>
        ELSE <<SubSeq(s, 1, d - 1)>> \o Split(SubSeq(s, d + 1, Len(s)))

\* Iterator::take(2)
Take2(parts) == SubSeq(parts, 1, Min(2, Len(parts)))

(* Method::try_from(&str): the empty string is no method; any other string  *)
(* of token characters is one (a standard verb or an extension method).     *)
IsMethodChar(b) ==
    \/ b >= 48 /\ b <= 57       \* 0-9
    \/ b >= 65 /\ b <= 90       \* A-Z
    \/ b >= 97 /\ b <= 122      \* a-z
    \/ b \in {33, 42, 45, 46, 94, 95, 96, 124, 126}  \* ! * - . ^ _ ` | ~

MethodTryFrom(value) ==
    IF Len(value) > 0 /\ \A i \in 1..Len(value) : IsMethodChar(value[i])
    THEN Some(value)
    ELSE None

----------------------------------------------------------------------------
(* parse_method_in_first_field *)

\* Buf::remaining
Remaining(b, p) == Len(b) - p

\* mutation: peek_buffer always has MAX_LEN bytes
PeekLenFixed(b, p) == MAX_LEN

\* mutation: peek_buffer holds the whole body
PeekLenWholeBody(b, p) == Remaining(b, p)

\* std::cmp::min(body.remaining(), MAX_LEN): the length of peek_buffer
PeekLen(b, p) == Min(Remaining(b, p), MAX_LEN)

\* Buf::copy_to_slice(dst) with dst.len() = n: panics when fewer than n bytes
\* remain, else copies the next n bytes and advances the cursor by n
CopyToSlice(b, p, n) ==
    IF Remaining(b, p) < n
    THEN [panicked |-> TRUE, bytes |-> <<>>, pos |-> p]
    ELSE [panicked |-> FALSE, bytes |-> SubSeq(b, p + 1, p + n), pos |-> p + n]

\* mutation: the first segment need only start with "_method"
NameStartsWithMethod(name) ==
    Len(name) >= Len(S_method) /\ SubSeq(name, 1, Len(S_method)) = S_method

\* the name the first segment must equal
NameIsMethod(name) == name = S_method

\* lines 65-75: decode, split, take(2), match (name, value)
ParsePeeked(peek_buffer) ==
    IF ~FromUtf8Ok(peek_buffer) THEN None
    ELSE LET parts == Take2(Split(peek_buffer))
         IN  IF Len(parts) = 2 /\ NameIsMethod(parts[1])
             THEN MethodTryFrom(parts[2])
             ELSE None

\* the whole function: [result, pos, panicked]
ParseMethodInFirstField(b, p) ==
    IF Remaining(b, p) < MIN_LEN
    THEN [result |-> None, pos |-> p, panicked |-> FALSE]
    ELSE LET c == CopyToSlice(b, p, PeekLen(b, p))
         IN  IF c.panicked
             THEN [result |-> None, pos |-> c.pos, panicked |-> TRUE]
             ELSE [result |-> ParsePeeked(c.bytes), pos |-> c.pos,
                   panicked |-> FALSE]

----------------------------------------------------------------------------
(* form_method *)

\* u8::to_ascii_lowercase
ToAsciiLower(b) == IF b >= 65 /\ b <= 90 THEN b + 32 ELSE b

\* [u8]::eq_ignore_ascii_case
EqIgnoreAsciiCase(a, b) ==
    /\ Len(a) = Len(b)
    /\ \A i \in 1..Len(a) : ToAsciiLower(a[i]) = ToAsciiLower(b[i])

\* warp::header::exact_ignore_case("Content-Type", "application/x-www-form-urlencoded")
IsFormContentOk(h) == h.present /\ EqIgnoreAsciiCase(h.value, FORM_CONTENT_TYPE)

\* warp::post()
IsPost(m) == m = POST

\* mutation: the match guard is dropped, any Some(_) is accepted
MethodMatchesAnySome(fm, method) == fm.some

\* Some(form_method) if form_method == method
MethodMatches(fm, method) == fm.some /\ fm.method = method

----------------------------------------------------------------------------
(* The requests and targets explored *)

Targets == {PUT, DELETE, OPTIONS, CONNECT}

ReqMethods == {POST, GET, PUT}

NoHeader == [present |-> FALSE, value |-> <<>>]
Header(v) == [present |-> TRUE, value |-> v]

ContentTypes ==
    { NoHeader,
      Header(FORM_CONTENT_TYPE),
      \* "Application/X-WWW-Form-Urlencoded"
      Header(<<65, 112, 112, 108, 105, 99, 97, 116, 105, 111, 110, 47, 88, 45,
               87, 87, 87, 45, 70, 111, 114, 109, 45, 85, 114, 108, 101, 110,
               99, 111, 100, 101, 100>>),
      \* "text/plain"
      Header(<<116, 101, 120, 116, 47, 112, 108, 97, 105, 110>>),
      \* "application/x-www-form-urlencoded; charset=utf-8"
      Header(FORM_CONTENT_TYPE \o
             <<59, 32, 99, 104, 97, 114, 115, 101, 116, 61, 117, 116, 102, 45, 56>>) }

Names == {S_method, S_metho, S_methodx, S_first_name}

Values ==
    StandardMethods \cup
    { <<>>,
      <<71, 69>>,                                \* "GE"
      <<112, 117, 116>>,                         \* "put"
      <<68, 69, 76, 69, 84, 69, 88, 89, 90>>,    \* "DELETEXYZ"
      <<80, 32, 84>>,                            \* "P T"
      <<80, 85, 255>>,                           \* "PU" and a byte that is never UTF-8
      <<80, 195, 169>> }                         \* "P" and U+00E9 in two bytes

\* '&', 'a', and the two bytes of U+00E9
TailBytes == {38, 97, 195, 169}

Tails == UNION { [1..n -> TailBytes] : n \in 0..MaxTailLen }

\* "&_method=PUT": a well-formed _method field that is not the first one
LaterMethodField == AMP \o S_method \o EQ \o PUT

\* "&" and U+00E9 in two bytes: a later field that is well-formed UTF-8
LaterAccentedField == AMP \o <<195, 169>>

Bodies ==
    { <<>> } \cup
    { n \o d \o v \o t \o s :
        n \in Names, d \in {EQ, AMP}, v \in Values, t \in Tails,
        s \in {<<>>, LaterMethodField, LaterAccentedField} }

----------------------------------------------------------------------------
(* The filter chain of form_method, one action per stage *)

Init ==
    /\ target \in Targets
    /\ reqMethod \in ReqMethods
    /\ contentType \in ContentTypes
    /\ body = <<>>
    /\ pos = 0
    /\ form_method_result = None
    /\ panicked = FALSE
    /\ trace = <<>>
    /\ pc = "post"
    /\ outcome = "pending"

\* warp::post(): rejects unless the request method is POST
Post ==
    /\ pc = "post"
    /\ trace' = Append(trace, "post")
    /\ IF IsPost(reqMethod)
       THEN pc' = "header" /\ outcome' = outcome
       ELSE pc' = "done" /\ outcome' = "rejected"
    /\ UNCHANGED <<target, reqMethod, contentType, body, pos,
                   form_method_result, panicked>>

\* mutation: the chain goes on to the body after a failed header check
IsFormContentNoShortCircuit ==
    /\ pc = "header"
    /\ trace' = Append(trace, "header")
    /\ pc' = "aggregate"
    /\ outcome' = IF IsFormContentOk(contentType) THEN outcome ELSE "rejected"
    /\ UNCHANGED <<target, reqMethod, contentType, body, pos,
                   form_method_result, panicked>>

\* .and(is_form_content()): rejects unless the Content-Type header matches
IsFormContent ==
    /\ pc = "header"
    /\ trace' = Append(trace, "header")
    /\ IF IsFormContentOk(contentType)
       THEN pc' = "aggregate" /\ outcome' = outcome
       ELSE pc' = "done" /\ outcome' = "rejected"
    /\ UNCHANGED <<target, reqMethod, contentType, body, pos,
                   form_method_result, panicked>>

\* .and(warp::body::aggregate()): the request body becomes a fresh buffer
Aggregate ==
    /\ pc = "aggregate"
    /\ trace' = Append(trace, "aggregate")
    /\ \E b \in Bodies : body' = b
    /\ pos' = 0
    /\ pc' = "parse"
    /\ UNCHANGED <<target, reqMethod, contentType, form_method_result,
                   panicked, outcome>>

\* .map(parse_method_in_first_field)
MapParse ==
    /\ pc = "parse"
    /\ trace' = Append(trace, "parse")
    /\ LET r == ParseMethodInFirstField(body, pos)
       IN  /\ form_method_result' = r.result
           /\ pos' = r.pos
           /\ panicked' = r.panicked
           /\ IF r.panicked
              THEN pc' = "done" /\ outcome' = "panicked"
              ELSE pc' = "compare" /\ outcome' = outcome
    /\ UNCHANGED <<target, reqMethod, contentType, body>>

\* .and_then(|form_method| match form_method { Some(m) if m == method => ok, _ => reject })
AndThen ==
    /\ pc = "compare"
    /\ trace' = Append(trace, "compare")
    /\ outcome' = IF MethodMatches(form_method_result, target)
                  THEN "matched" ELSE "rejected"
    /\ pc' = "done"
    /\ UNCHANGED <<target, reqMethod, contentType, body, pos,
                   form_method_result, panicked>>

Next == Post \/ IsFormContent \/ Aggregate \/ MapParse \/ AndThen

Spec == Init /\ [][Next]_vars

----------------------------------------------------------------------------
(* Vocabulary of the properties *)

\* the inspector has been invoked on the body and has returned
Parsed == Len(trace) >= 4 /\ trace[4] = "parse" /\ ~panicked

IsPrefixOf(p, s) == Len(p) <= Len(s) /\ SubSeq(s, 1, Len(p)) = p

\* index of the first byte c of s at or after i, or 0
RECURSIVE IndexOfByte(_, _, _)
IndexOfByte(s, c, i) ==
    IF i > Len(s) THEN 0
    ELSE IF s[i] = c THEN i
    ELSE IndexOfByte(s, c, i + 1)

\* the first field of a form body: everything before the first '&'
FirstFieldOf(b) ==
    LET a == IndexOfByte(b, 38, 1)
    IN  IF a = 0 THEN b ELSE SubSeq(b, 1, a - 1)

\* a field is name=value: the name ends at the field's first '='
FieldHasValue(f) == IndexOfByte(f, 61, 1) > 0
FieldName(f) == SubSeq(f, 1, IndexOfByte(f, 61, 1) - 1)
FieldValue(f) == SubSeq(f, IndexOfByte(f, 61, 1) + 1, Len(f))

\* what the whole body's first field says the method is
FirstFieldMethod(b) ==
    LET f == FirstFieldOf(b)
    IN  IF FieldHasValue(f) /\ FieldName(f) = S_method
        THEN MethodTryFrom(FieldValue(f))
        ELSE None

\* the text of the whole body before its first '=' or '&'
TextBeforeFirstDelimiter(b) ==
    LET d == FirstDelimiter(b, 1)
    IN  IF d = 0 THEN b ELSE SubSeq(b, 1, d - 1)

\* the bytes of b that follow "_method=" up to the next '=' or '&'
ValueAfterMethodEq(b) ==
    TextBeforeFirstDelimiter(SubSeq(b, Len(S_method) + 2, Len(b)))

LowerCased(s) == [i \in 1..Len(s) |-> ToAsciiLower(s[i])]

ContentTypeIsForm ==
    contentType.present /\ LowerCased(contentType.value) = FORM_CONTENT_TYPE

StageOrder == <<"post", "header", "aggregate", "parse", "compare">>

----------------------------------------------------------------------------
(* Properties *)

\* C1: the inspector returns Some(m) exactly when the first field of the
\* whole body is named _method and its value is a valid method token, and m
\* is that value; otherwise it returns None.
C1_FirstFieldOfWholeBody ==
    Parsed => form_method_result = FirstFieldMethod(body)

\* C2: a body that begins with _method=<M>, M a standard method, followed by
\* '&' and anything or by the end of the body, yields Some(M).
C2_StandardMethodAccepted ==
    Parsed =>
        \A M \in StandardMethods :
            LET f == S_method \o EQ \o M
            IN  (IsPrefixOf(f, body) /\ (Len(body) = Len(f) \/ body[Len(f) + 1] = 38))
                    => form_method_result = Some(M)

\* C3: the filter matches exactly when the request is a POST, its
\* Content-Type equals the form type ignoring case, and the inspector
\* returned Some(m) with m the target; Some(m) with another m is rejected.
C3_MatchesIff ==
    pc = "done" =>
        /\ outcome = "matched" <=>
              /\ reqMethod = POST
              /\ ContentTypeIsForm
              /\ Parsed
              /\ form_method_result = Some(target)
        /\ (Parsed /\ form_method_result.some /\ form_method_result.method # target)
              => outcome = "rejected"

C3_Witness ==
    /\ pc = "done"
    /\ target = PUT
    /\ form_method_result = Some(DELETE)
    /\ IsPrefixOf(S_method \o EQ \o DELETE \o AMP, body)
    /\ outcome = "rejected"

\* C4: when the text before the body's first '=' or '&' is not _method the
\* inspector returns None, also when a _method field comes later.
C4_NotFirstFieldIsNone ==
    (Parsed /\ TextBeforeFirstDelimiter(body) # S_method)
        => form_method_result = None

C4_Witness ==
    /\ Parsed
    /\ body = S_first_name \o EQ \o PUT \o LaterMethodField
    /\ form_method_result = None

\* C5: a body of fewer than 11 bytes yields None and the filter rejects it.
C5_ShortBodyIsNone ==
    (Parsed /\ Len(body) < 11)
        => /\ form_method_result = None
           /\ pc = "done" => outcome = "rejected"

C5_Witness ==
    /\ pc = "done"
    /\ Parsed
    /\ body = S_method \o EQ \o <<71, 69>>
    /\ outcome = "rejected"

\* C6: the inspector never panics, and a body whose first 14 bytes are not
\* valid UTF-8 yields None.
C6_NoPanicInvalidUtf8IsNone ==
    /\ ~panicked
    /\ outcome # "panicked"
    /\ (Parsed /\ ~FromUtf8Ok(SubSeq(body, 1, Min(Len(body), 14))))
          => form_method_result = None

\* "_method=HEAD&" and U+00E9: well-formed UTF-8 cut inside its last character
C6_Witness ==
    /\ Parsed
    /\ body = S_method \o EQ \o HEAD \o LaterAccentedField
    /\ FromUtf8Ok(body)
    /\ pos = 14
    /\ form_method_result = None

\* C7: the stages run in the order method check, Content-Type check, body
\* inspection; a request that is not a POST fails after the method check
\* alone, and one whose Content-Type is absent or different fails after the
\* header check with the inspector never invoked.
C7_ShortCircuitOrder ==
    /\ IsPrefixOf(trace, StageOrder)
    /\ (pc = "done" /\ reqMethod # POST)
          => (trace = <<"post">> /\ outcome = "rejected")
    /\ (pc = "done" /\ reqMethod = POST /\ ~ContentTypeIsForm)
          => (trace = <<"post", "header">> /\ outcome = "rejected")
    /\ (\E i \in 1..Len(trace) : trace[i] \in {"aggregate", "parse"})
          => (reqMethod = POST /\ ContentTypeIsForm)

C7_Witness ==
    /\ pc = "done"
    /\ reqMethod = POST
    /\ ~contentType.present
    /\ trace = <<"post", "header">>
    /\ outcome = "rejected"

\* C8: the inspector consumes no byte of a body shorter than 11 bytes and
\* exactly min(n, 14) bytes of any other body of n bytes.
C8_BytesConsumed ==
    /\ pos <= 14
    /\ Parsed => pos = (IF Len(body) < 11 THEN 0 ELSE Min(Len(body), 14))

C8_Witness ==
    /\ Parsed
    /\ Len(body) > 14
    /\ pos = 14

\* C9: a body longer than 14 bytes whose first field is _method with a value
\* of more than 6 bytes before the next delimiter yields None.
C9_OverlongValueIsNone ==
    (/\ Parsed
     /\ Len(body) > 14
     /\ IsPrefixOf(S_method \o EQ, body)
     /\ Len(ValueAfterMethodEq(body)) > 6)
        => form_method_result = None

====
